---- MODULE Spec2Model ----
(***************************************************************************)
(* Model of MN_Park_Guide_With_Street_Map_V2_Email_Edits.py: the pipeline  *)
(* main() runs (catalog fetch, sampler, per-park detail fetch, image       *)
(* download, document assembly, map rendering, save), with the network,    *)
(* the server's data and the files already on disk as the environment.     *)
(***************************************************************************)
EXTENDS Integers, Sequences, FiniteSets, TLC

VARIABLES
    pc,                          \* position in main(), or "crashed" / "done"
    document,                    \* the module-level docx Document: its body elements
    response,                    \* main: result of master_park_data()
    park_ids_list,               \* main: list(park_dict.values())
    number_of_parks,             \* main: the count handed to choose_rand_park
    total_parks,                 \* choose_rand_park: the remaining count
    random_park_id_selection,    \* choose_rand_park / main: the chosen ids
    idx,                         \* main: 1-based position of the for loop over the selection
    each_park,                   \* main: result of detailed_park_data(park_id)
    index,                       \* download_images: enumerate() index of the next image
    disk,                        \* the working directory: file name -> bytes
    disk_before,                 \* history: the disk when download_images was called
    saved,                       \* the documents written by document.save, in order
    console,                     \* what print() wrote
    error                        \* the exception that ended the run, if any

vars == << pc, document, response, park_ids_list, number_of_parks, total_parks,
           random_park_id_selection, idx, each_park, index, disk, disk_before,
           saved, console, error >>

(***************************************************************************)
(* Bounds of the model.                                                    *)
(***************************************************************************)
MaxImages == 8      \* most image URLs the variable park's detail record holds
MaxK == 3           \* SamplerSpec: largest requested count
MaxLen == 3         \* SamplerSpec: longest identifier list
MaxId == 3          \* SamplerSpec: identifiers are 1..MaxId
MaxUrls == 3        \* DownloadSpec: longest URL list
MaxStale == 3       \* files a previous run left on disk for one park

(***************************************************************************)
(* Program constants.                                                      *)
(***************************************************************************)
NumberOfParks == 5
GallerySize == 6

Range(s) == { s[i] : i \in DOMAIN s }

SeqsUpTo(S, n) == UNION { [1..k -> S] : k \in 0..n }

(***************************************************************************)
(* Values: None and an unassigned local are tagged, as is a returned value.*)
(***************************************************************************)
Unset == [tag |-> "unset"]
NoneVal == [tag |-> "None"]
Value(v) == [tag |-> "value", val |-> v]

(***************************************************************************)
(* File names.  f'{park_name}_{index}.jpg' and f'{park_name}_map.png' are  *)
(* kept as their parts: the formatted strings of two different             *)
(* (name, index) pairs differ, and no .jpg name equals a .png name.        *)
(***************************************************************************)
JpgFile(park_name, i) == << park_name, "jpg", i >>
MapFile(park_name) == << park_name, "map.png", 0 >>
NoFile == << "", "", 0 >>

NoError == [type |-> "", file |-> NoFile]
Raised(type, file) == [type |-> type, file |-> file]

(***************************************************************************)
(* Document elements as python-docx appends them.                          *)
(***************************************************************************)
Paragraph(text, style) ==
    [kind |-> "paragraph", text |-> text, style |-> style, file |-> NoFile,
     size |-> << 0, 0 >>, align |-> ""]
Picture(file, size, align) ==
    [kind |-> "picture", text |-> "", style |-> "", file |-> file,
     size |-> size, align |-> align]

(***************************************************************************)
(* The environment: what the server holds and what a previous run left on  *)
(* disk.  Identifiers are 1..6; park 5's detail record holds any number of *)
(* image URLs from 0 to MaxImages, the others hold 7 or 8.                 *)
(***************************************************************************)
ParkNames == << "Itasca", "Gooseberry", "Tettegouche", "Afton", "Banning", "Cascade" >>
VariablePark == 5

Urls == << "u0", "u1", "u2" >>

\* The response body of each image URL, as the bytes requests.get receives.
Body(url) == CASE url = "u0" -> << 1, 2 >>
               [] url = "u1" -> << >>
               [] OTHER -> << 3 >>

StaleBytes == << 9, 9, 9 >>

ImageUrls(n) == [i \in 1..n |-> Urls[((i - 1) % 3) + 1]]

Highlights(id) == CASE id = 1 -> << "lake", "trail" >>
                    [] id = 2 -> << >>
                    [] OTHER -> << "falls" >>

Information(id) == CASE id = 1 -> << << "Camping", "open" >>, << "Hiking", "5 miles" >> >>
                     [] id = 3 -> << >>
                     [] OTHER -> << << "Camping", "closed" >> >>

Detail(id, n) ==
    [name |-> ParkNames[id],
     park_images |-> ImageUrls(n),
     highlights |-> Highlights(id),
     park_information |-> Information(id),
     address |-> "address",
     url |-> "website",
     location |-> [latitude |-> 40 + id, longitude |-> 90 + id]]

ImageCounts(id) == IF id = VariablePark THEN 0..MaxImages
                   ELSE IF id = 2 THEN {8} ELSE {7}

Entry(name, park_id) == [name |-> name, park_id |-> park_id]

\* The catalogs the list endpoint may answer with.
Catalogs ==
    { << >>,
      [i \in 1..5 |-> Entry(ParkNames[i], i)],
      [i \in 1..6 |-> Entry(ParkNames[i], i)],
      \* a name listed twice: the dictionary keeps four identifiers
      [i \in 1..5 |-> Entry(ParkNames[IF i = 5 THEN 1 ELSE i], i)],
      \* two names with one identifier: five entries, four distinct identifiers
      [i \in 1..5 |-> Entry(ParkNames[i], IF i = 5 THEN 4 ELSE i)] }

EmptyDisk == [f \in {} |-> << >>]

StaleDisk(park_name, m) ==
    [f \in { JpgFile(park_name, i) : i \in 0..(m - 1) } \cup { MapFile(park_name) }
        |-> StaleBytes]

InitDisks == { EmptyDisk, StaleDisk(ParkNames[VariablePark], MaxStale) }

WriteFile(d, f, bytes) ==
    [g \in DOMAIN d \cup {f} |-> IF g = f THEN bytes ELSE d[g]]

(***************************************************************************)
(* main, lines 24-29: park_dict[name] = park_id for each entry, then the   *)
(* values.  A dict keeps a key's first position and its last value.        *)
(***************************************************************************)
DictSet(d, k, v) ==
    IF \E i \in 1..Len(d) : d[i][1] = k
    THEN [i \in 1..Len(d) |-> IF d[i][1] = k THEN << k, v >> ELSE d[i]]
    ELSE Append(d, << k, v >>)

RECURSIVE ParkDict(_)
ParkDict(entries) ==
    IF entries = << >> THEN << >>
    ELSE LET last == entries[Len(entries)]
         IN DictSet(ParkDict(SubSeq(entries, 1, Len(entries) - 1)),
                    last.name, last.park_id)

DictValues(d) == [i \in 1..Len(d) |-> d[i][2]]

(***************************************************************************)
(* choose_rand_park, lines 71-80.                                          *)
(***************************************************************************)
\* Mutants of one loop iteration: no membership test; the decrement dedented;
\* the decrement missing.
SamplerStepNoTest(total, selection, chosen_park) ==
    [selection |-> Append(selection, chosen_park), total |-> total - 1]

SamplerStepDedent(total, selection, chosen_park) ==
    [selection |-> IF chosen_park \notin Range(selection)
                   THEN Append(selection, chosen_park) ELSE selection,
     total |-> total - 1]

SamplerStepNoDecrement(total, selection, chosen_park) ==
    [selection |-> IF chosen_park \notin Range(selection)
                   THEN Append(selection, chosen_park) ELSE selection,
     total |-> total]

\* lines 76-78: the body of the loop after the draw
SamplerStep(total, selection, chosen_park) ==
    IF chosen_park \notin Range(selection)
    THEN [selection |-> Append(selection, chosen_park), total |-> total - 1]
    ELSE [selection |-> selection, total |-> total]

Crash(type, file) ==
    /\ pc' = "crashed"
    /\ error' = Raised(type, file)

\* line 74: the loop test; line 80: the return to main's for loop
SamplerWhile ==
    /\ pc = "choose_rand_park"
    /\ pc' = IF total_parks > 0 THEN "random_choice" ELSE "for_park"
    /\ UNCHANGED << document, response, park_ids_list, number_of_parks, total_parks,
                    random_park_id_selection, idx, each_park, index, disk,
                    disk_before, saved, console, error >>

\* line 75: random.choice raises IndexError on an empty list
SamplerEmpty ==
    /\ pc = "random_choice"
    /\ park_ids_list = << >>
    /\ Crash("IndexError", NoFile)
    /\ UNCHANGED << document, response, park_ids_list, number_of_parks, total_parks,
                    random_park_id_selection, idx, each_park, index, disk,
                    disk_before, saved, console >>

\* lines 75-78: draw position i of the list, accept it if it is new
SamplerDraw(i) ==
    /\ pc = "random_choice"
    /\ i \in 1..Len(park_ids_list)
    /\ LET step == SamplerStep(total_parks, random_park_id_selection, park_ids_list[i])
       IN /\ random_park_id_selection' = step.selection
          /\ total_parks' = step.total
    /\ pc' = "choose_rand_park"
    /\ UNCHANGED << document, response, park_ids_list, number_of_parks, idx,
                    each_park, index, disk, disk_before, saved, console, error >>

SamplerNext ==
    \/ SamplerWhile
    \/ SamplerEmpty
    \/ \E i \in 1..MaxLen : SamplerDraw(i)

\* choose_rand_park called with any count and any identifier list
SamplerInit ==
    /\ pc = "choose_rand_park"
    /\ document = << >>
    /\ response = Unset
    /\ park_ids_list \in SeqsUpTo(1..MaxId, MaxLen)
    /\ number_of_parks \in 0..MaxK
    /\ total_parks = number_of_parks
    /\ random_park_id_selection = << >>
    /\ idx = 1
    /\ each_park = Unset
    /\ index = 0
    /\ disk = EmptyDisk
    /\ disk_before = EmptyDisk
    /\ saved = << >>
    /\ console = << >>
    /\ error = NoError

SamplerSpec == SamplerInit /\ [][SamplerNext]_vars

\* the interpreter keeps running, and every position of the list keeps being drawn
SamplerFairSpec ==
    /\ SamplerSpec
    /\ WF_vars(SamplerWhile)
    /\ WF_vars(SamplerEmpty)
    /\ \A i \in 1..MaxLen : SF_vars(SamplerDraw(i))

\* the interpreter keeps running; nothing is assumed of the draws
SamplerRunSpec == SamplerSpec /\ WF_vars(SamplerNext)

(***************************************************************************)
(* download_images, lines 157-165.                                         *)
(***************************************************************************)
\* Mutant: the file opened in append mode
OpenAppend(d, f) == IF f \in DOMAIN d THEN d ELSE WriteFile(d, f, << >>)

\* line 163: open(filename, 'wb') creates the file or truncates it
OpenWB(d, f) == WriteFile(d, f, << >>)

\* line 164: iter_content() yields the body one byte at a time
IterContent(body) == [i \in 1..Len(body) |-> << body[i] >>]

\* lines 164-165: file.write(chunk) for each chunk
RECURSIVE WriteChunks(_, _)
WriteChunks(content, chunks) ==
    IF chunks = << >> THEN content
    ELSE WriteChunks(content \o Head(chunks), Tail(chunks))

\* line 162
Filename(park_name, i) == JpgFile(park_name, i)

\* lines 161-165 for one (index, url)
SaveImage(d, park_name, i, url) ==
    LET f == Filename(park_name, i)
        opened == OpenWB(d, f)
    IN [opened EXCEPT ![f] = WriteChunks(@, IterContent(Body(url)))]

\* one iteration of the loop: the request fails, or the file is written
DownloadImage ==
    /\ pc = "download_images"
    /\ index < Len(each_park.val.park_images)
    /\ \/ /\ Crash("ConnectionError", NoFile)
          /\ UNCHANGED << disk, index >>
       \/ /\ disk' = SaveImage(disk, each_park.val.name, index,
                               each_park.val.park_images[index + 1])
          /\ index' = index + 1
          /\ UNCHANGED << pc, error >>
    /\ UNCHANGED << document, response, park_ids_list, number_of_parks, total_parks,
                    random_park_id_selection, idx, each_park, disk_before, saved,
                    console >>

(***************************************************************************)
(* The body of main's for loop after the detail record is read, lines      *)
(* 37-44, as the order of its calls.                                       *)
(***************************************************************************)
\* Mutants: the sections assembled before the images are downloaded; the map
\* before the contact information
BodyOrderAssembleFirst ==
    << "park_title_and_header_img", "download_images", "park_text_info", "park_gallery",
       "contact_information", "open_street_park_map", "add_paragraph" >>

BodyOrderMapFirst ==
    << "download_images", "park_title_and_header_img", "park_text_info", "park_gallery",
       "open_street_park_map", "contact_information", "add_paragraph" >>

BodyOrder ==
    << "download_images", "park_title_and_header_img", "park_text_info", "park_gallery",
       "contact_information", "open_street_park_map", "add_paragraph" >>

StepAfter(step) ==
    LET i == CHOOSE j \in 1..Len(BodyOrder) : BodyOrder[j] = step
    IN IF i = Len(BodyOrder) THEN "for_park" ELSE BodyOrder[i + 1]

\* the loop over the images is exhausted: download_images returns
DownloadDone ==
    /\ pc = "download_images"
    /\ index = Len(each_park.val.park_images)
    /\ pc' = StepAfter("download_images")
    /\ UNCHANGED << document, response, park_ids_list, number_of_parks, total_parks,
                    random_park_id_selection, idx, each_park, index, disk,
                    disk_before, saved, console, error >>

DownloadNext == DownloadImage \/ DownloadDone

\* download_images called with any URL list, on a disk a previous run may have used
DownloadInit ==
    /\ pc = "download_images"
    /\ document = << >>
    /\ response = Unset
    /\ park_ids_list = << >>
    /\ number_of_parks = NumberOfParks
    /\ total_parks = NumberOfParks
    /\ random_park_id_selection = << >>
    /\ idx = 1
    /\ \E id \in {1, VariablePark} : \E images \in SeqsUpTo(Range(Urls), MaxUrls) :
          each_park = Value([Detail(id, 0) EXCEPT !.park_images = images])
    /\ index = 0
    /\ disk \in InitDisks
    /\ disk_before = disk
    /\ saved = << >>
    /\ console = << >>
    /\ error = NoError

DownloadSpec == DownloadInit /\ [][DownloadNext]_vars

(***************************************************************************)
(* The Document Assembler: lines 83-116 and 119-154.                       *)
(***************************************************************************)
\* document.add_picture(file, ...): the file is read from disk
AddPicture(doc, d, file, size, align) ==
    IF file \in DOMAIN d
    THEN [doc |-> Append(doc, Picture(file, size, align)), error |-> NoError]
    ELSE [doc |-> doc, error |-> Raised("FileNotFoundError", file)]

\* park_title_and_header_img, lines 85-88
TitleAndHeaderImg(doc, d, park_details) ==
    AddPicture(Append(doc, Paragraph(park_details.name, "Heading 1")), d,
               JpgFile(park_details.name, 0), << 600, 249 >>, "")

\* lines 96-97
RECURSIVE AddHighlights(_, _)
AddHighlights(doc, highlights) ==
    IF highlights = << >> THEN doc
    ELSE AddHighlights(Append(doc, Paragraph(Head(highlights), "List Bullet")),
                       Tail(highlights))

\* lines 100-102
RECURSIVE AddInformation(_, _)
AddInformation(doc, items) ==
    IF items = << >> THEN doc
    ELSE AddInformation(
            Append(Append(doc, Paragraph(Head(items)[1], "Heading 2")),
                   Paragraph(Head(items)[2], "Normal")),
            Tail(items))

\* park_text_info, lines 94-102
TextInfo(doc, park_details) ==
    AddInformation(
        AddHighlights(Append(doc, Paragraph("Highlights", "Heading 2")),
                      park_details.highlights),
        park_details.park_information)

\* Mutant: the gallery files counted from 0, the header image shown again
GalleryFileFromZero(park_name, i) == JpgFile(park_name, i)

\* line 110: f'{park_name}_{index+1}.jpg'
GalleryFile(park_name, i) == JpgFile(park_name, i + 1)

\* park_gallery, lines 109-114: for index in range(6), from index i on
RECURSIVE Gallery(_, _, _, _)
Gallery(doc, d, park_name, i) ==
    IF i >= GallerySize THEN [doc |-> doc, error |-> NoError]
    ELSE LET added == AddPicture(doc, d, GalleryFile(park_name, i),
                                 << 547, 287 >>, "CENTER")
         IN IF added.error.type # "" THEN added
            ELSE Gallery(added.doc, d, park_name, i + 1)

\* contact_information, lines 148-154
ContactInformation(doc, park_details) ==
    doc \o << Paragraph("Contact Information", "Heading 2"),
              Paragraph("Address", "Heading 3"),
              Paragraph(park_details.address, "Normal"),
              Paragraph("Website", "Heading 3"),
              Paragraph(park_details.url, "Normal") >>

\* the image fig.write_image renders for a coordinate pair
MapImage(location) == << location.latitude, location.longitude >>

\* open_street_park_map, lines 122-138
RenderMap(d, park_details) ==
    WriteFile(d, MapFile(park_details.name), MapImage(park_details.location))

\* open_street_park_map, lines 140-143
EmbedMap(doc, d, park_details) ==
    AddPicture(Append(doc, Paragraph("Map", "Heading 2")), d,
               MapFile(park_details.name), << 0, 0 >>, "CENTER")

(***************************************************************************)
(* main, lines 19-46.                                                      *)
(***************************************************************************)
\* line 21
Main ==
    /\ pc = "main"
    /\ document' = Append(document, Paragraph("Minnesota State Park Travel Guide", "Title"))
    /\ pc' = "master_park_data"
    /\ UNCHANGED << response, park_ids_list, number_of_parks, total_parks,
                    random_park_id_selection, idx, each_park, index, disk,
                    disk_before, saved, console, error >>

\* Mutant: the except branch returns an empty list
CatalogFailureEmptyList == Value(<< >>)

\* lines 56-57: the except branch prints and falls off the end: None
CatalogFailure == NoneVal

\* master_park_data, lines 52-57: the list, or the diagnostic and None
MasterParkData ==
    /\ pc = "master_park_data"
    /\ \/ /\ \E catalog \in Catalogs : response' = Value(catalog)
          /\ UNCHANGED console
       \/ /\ response' = CatalogFailure
          /\ console' = Append(console, "There was an error requesting park data. Check network connection.")
    /\ pc' = "park_dict"
    /\ UNCHANGED << document, park_ids_list, number_of_parks, total_parks,
                    random_park_id_selection, idx, each_park, index, disk,
                    disk_before, saved, error >>

\* line 25 on None: 'NoneType' object is not iterable
CatalogAbsent ==
    /\ pc = "park_dict"
    /\ response.tag = "None"
    /\ Crash("TypeError", NoFile)
    /\ UNCHANGED << document, response, park_ids_list, number_of_parks, total_parks,
                    random_park_id_selection, idx, each_park, index, disk,
                    disk_before, saved, console >>

\* lines 24-32: the dictionary, its values, the call of choose_rand_park
BuildParkDict ==
    /\ pc = "park_dict"
    /\ response.tag = "value"
    /\ park_ids_list' = DictValues(ParkDict(response.val))
    /\ total_parks' = number_of_parks
    /\ random_park_id_selection' = << >>
    /\ pc' = "choose_rand_park"
    /\ UNCHANGED << document, response, number_of_parks, idx, each_park, index,
                    disk, disk_before, saved, console, error >>

\* Mutant: document.save indented into the loop body's end
LoopFinishedAfterFirst == idx > 1

\* line 33: the for loop over the selection is exhausted
LoopFinished == idx > Len(random_park_id_selection)

\* Mutant: the loop runs over the catalog's list, not over the sample
LoopParkFromList == park_ids_list[idx]

\* line 33: for park_id in random_park_id_selection
LoopPark == random_park_id_selection[idx]

\* detailed_park_data, lines 62-68: the record, or the diagnostic and None
DetailedParkData ==
    /\ pc = "for_park"
    /\ ~LoopFinished
    /\ \/ /\ \E n \in ImageCounts(LoopPark) :
                each_park' = Value(Detail(LoopPark, n))
          /\ UNCHANGED console
       \/ /\ each_park' = NoneVal
          /\ console' = Append(console, "There was an error requesting park information. Check network connection.")
    /\ pc' = "park_name"
    /\ UNCHANGED << document, response, park_ids_list, number_of_parks, total_parks,
                    random_park_id_selection, idx, index, disk, disk_before, saved,
                    error >>

\* line 35 on None: 'NoneType' object is not subscriptable
ParkAbsent ==
    /\ pc = "park_name"
    /\ each_park.tag = "None"
    /\ Crash("TypeError", NoFile)
    /\ UNCHANGED << document, response, park_ids_list, number_of_parks, total_parks,
                    random_park_id_selection, idx, each_park, index, disk,
                    disk_before, saved, console >>

\* lines 35-37: the name and the image list are read, the loop body begins
ParkRead ==
    /\ pc = "park_name"
    /\ each_park.tag = "value"
    /\ index' = 0
    /\ disk_before' = disk
    /\ pc' = BodyOrder[1]
    /\ UNCHANGED << document, response, park_ids_list, number_of_parks, total_parks,
                    random_park_id_selection, idx, each_park, disk, saved, console,
                    error >>

\* an assembler call that returned a document and, when it raised, the error
Assembled(step, result) ==
    /\ document' = result.doc
    /\ IF result.error.type = ""
       THEN pc' = StepAfter(step) /\ UNCHANGED error
       ELSE Crash(result.error.type, result.error.file)

\* line 39
ParkTitleAndHeaderImg ==
    /\ pc = "park_title_and_header_img"
    /\ Assembled("park_title_and_header_img",
                 TitleAndHeaderImg(document, disk, each_park.val))
    /\ UNCHANGED << response, park_ids_list, number_of_parks, total_parks,
                    random_park_id_selection, idx, each_park, index, disk,
                    disk_before, saved, console >>

\* line 40
ParkTextInfo ==
    /\ pc = "park_text_info"
    /\ Assembled("park_text_info",
                 [doc |-> TextInfo(document, each_park.val), error |-> NoError])
    /\ UNCHANGED << response, park_ids_list, number_of_parks, total_parks,
                    random_park_id_selection, idx, each_park, index, disk,
                    disk_before, saved, console >>

\* line 41
ParkGallery ==
    /\ pc = "park_gallery"
    /\ Assembled("park_gallery", Gallery(document, disk, each_park.val.name, 0))
    /\ UNCHANGED << response, park_ids_list, number_of_parks, total_parks,
                    random_park_id_selection, idx, each_park, index, disk,
                    disk_before, saved, console >>

\* line 42
ContactInformationStep ==
    /\ pc = "contact_information"
    /\ Assembled("contact_information",
                 [doc |-> ContactInformation(document, each_park.val), error |-> NoError])
    /\ UNCHANGED << response, park_ids_list, number_of_parks, total_parks,
                    random_park_id_selection, idx, each_park, index, disk,
                    disk_before, saved, console >>

\* line 43: the renderer fails, or the map is written and then embedded
OpenStreetParkMap ==
    /\ pc = "open_street_park_map"
    /\ \/ /\ Crash("RenderError", NoFile)
          /\ UNCHANGED << document, disk >>
       \/ /\ disk' = RenderMap(disk, each_park.val)
          /\ Assembled("open_street_park_map",
                       EmbedMap(document, disk', each_park.val))
    /\ UNCHANGED << response, park_ids_list, number_of_parks, total_parks,
                    random_park_id_selection, idx, each_park, index, disk_before,
                    saved, console >>

\* line 44, and the loop's step to the next park
AddParagraph ==
    /\ pc = "add_paragraph"
    /\ document' = Append(document, Paragraph("", ""))
    /\ idx' = idx + 1
    /\ pc' = StepAfter("add_paragraph")
    /\ UNCHANGED << response, park_ids_list, number_of_parks, total_parks,
                    random_park_id_selection, each_park, index, disk, disk_before,
                    saved, console, error >>

\* line 46
Save ==
    /\ pc = "for_park"
    /\ LoopFinished
    /\ saved' = Append(saved, document)
    /\ pc' = "done"
    /\ UNCHANGED << document, response, park_ids_list, number_of_parks, total_parks,
                    random_park_id_selection, idx, each_park, index, disk,
                    disk_before, console, error >>

\* the state when main() is called: an empty Document, a disk that a previous
\* run may have written to
Init ==
    /\ pc = "main"
    /\ document = << >>
    /\ response = Unset
    /\ park_ids_list = << >>
    /\ number_of_parks = NumberOfParks
    /\ total_parks = NumberOfParks
    /\ random_park_id_selection = << >>
    /\ idx = 1
    /\ each_park = Unset
    /\ index = 0
    /\ disk \in InitDisks
    /\ disk_before = disk
    /\ saved = << >>
    /\ console = << >>
    /\ error = NoError

Next ==
    \/ Main
    \/ MasterParkData
    \/ CatalogAbsent
    \/ BuildParkDict
    \/ SamplerWhile
    \/ SamplerEmpty
    \/ \E i \in 1..Len(park_ids_list) : SamplerDraw(i)
    \/ DetailedParkData
    \/ ParkAbsent
    \/ ParkRead
    \/ DownloadImage
    \/ DownloadDone
    \/ ParkTitleAndHeaderImg
    \/ ParkTextInfo
    \/ ParkGallery
    \/ ContactInformationStep
    \/ OpenStreetParkMap
    \/ AddParagraph
    \/ Save

Spec == Init /\ [][Next]_vars

(***************************************************************************)
(* Properties of choose_rand_park.                                         *)
(***************************************************************************)
SamplerReturned == pc = "for_park"
SamplerLooping == pc \in { "choose_rand_park", "random_choice" }
UniqueIds == Cardinality(Range(park_ids_list))

\* C1: whenever choose_rand_park(K, list) returns with K <= the number of distinct
\* identifiers of the list, the result has exactly K elements, each a member of
\* the list, none twice (also when the list repeats identifiers).
C1_SamplerResult ==
    (SamplerReturned /\ number_of_parks <= UniqueIds) =>
        /\ Len(random_park_id_selection) = number_of_parks
        /\ \A i \in 1..Len(random_park_id_selection) :
              random_park_id_selection[i] \in Range(park_ids_list)
        /\ \A i, j \in 1..Len(random_park_id_selection) :
              random_park_id_selection[i] = random_park_id_selection[j] => i = j

C1_Witness ==
    /\ SamplerReturned
    /\ number_of_parks = 2
    /\ Len(park_ids_list) = 3
    /\ UniqueIds = 2
    /\ Len(random_park_id_selection) = 2

\* C2 as stated: with fewer than K unique identifiers (every size from 0 to K-1)
\* choose_rand_park never returns and never stops with an error.
C2_NeverStops ==
    UniqueIds < number_of_parks =>
        /\ SamplerLooping
        /\ total_parks > 0
        /\ error = NoError

\* C2 amended: with a non-empty list of fewer than K unique identifiers the loop
\* never returns, never raises and can always take another step with the
\* remaining count above 0; with an empty list and K > 0 nothing is chosen and
\* the only way out of the loop is the IndexError of random.choice.
C2_NeverStopsUnlessEmpty ==
    /\ (park_ids_list # << >> /\ UniqueIds < number_of_parks) =>
          /\ SamplerLooping
          /\ total_parks > 0
          /\ error = NoError
          /\ ENABLED SamplerNext
    /\ (park_ids_list = << >> /\ number_of_parks > 0) =>
          /\ ~SamplerReturned
          /\ random_park_id_selection = << >>
          /\ total_parks = number_of_parks
          /\ \/ SamplerLooping /\ error = NoError /\ ENABLED SamplerNext
             \/ pc = "crashed" /\ error = Raised("IndexError", NoFile)

C2_Witness ==
    /\ UniqueIds < number_of_parks
    /\ Len(random_park_id_selection) = UniqueIds
    /\ UniqueIds = 2
    /\ pc = "random_choice"

\* C10: with at least K distinct identifiers in the list and every position of
\* the list drawn again and again, choose_rand_park returns; in every execution
\* the number of accepted identifiers never decreases and the remaining count
\* plus the number accepted is K.
C10_FairTermination ==
    /\ (UniqueIds >= number_of_parks) => <>SamplerReturned
    /\ [](total_parks + Len(random_park_id_selection) = number_of_parks)
    /\ [][Len(random_park_id_selection') >= Len(random_park_id_selection)]_vars

C10_Witness ==
    /\ SamplerReturned
    /\ number_of_parks = 3
    /\ random_park_id_selection = << 3, 1, 2 >>

\* C10, the execution without the fairness of the draws: under SamplerRunSpec
\* this termination property is violated by a run that draws an identifier
\* already chosen forever.
C10_TerminationWithoutFairDraws ==
    (UniqueIds >= number_of_parks) => <>SamplerReturned

(***************************************************************************)
(* Properties of the pipeline.                                             *)
(***************************************************************************)
IsHeading1(e) == e.kind = "paragraph" /\ e.style = "Heading 1"
Blank == Paragraph("", "")
IsBlank(e) == e = Blank
GuideTitle == Paragraph("Minnesota State Park Travel Guide", "Title")

Headings(doc) == { i \in 1..Len(doc) : IsHeading1(doc[i]) }
Blanks(doc) == { i \in 1..Len(doc) : IsBlank(doc[i]) }

\* the part of the document from the last park title on
CurrentBlock ==
    LET last == CHOOSE i \in Headings(document) : \A j \in Headings(document) : j <= i
    IN SubSeq(document, last, Len(document))

ExpectedTitle(d) ==
    << Paragraph(d.name, "Heading 1"),
       Picture(JpgFile(d.name, 0), << 600, 249 >>, "") >>

ExpectedText(d) ==
    << Paragraph("Highlights", "Heading 2") >>
    \o [i \in 1..Len(d.highlights) |-> Paragraph(d.highlights[i], "List Bullet")]
    \o [k \in 1..(2 * Len(d.park_information)) |->
          IF k % 2 = 1
          THEN Paragraph(d.park_information[(k + 1) \div 2][1], "Heading 2")
          ELSE Paragraph(d.park_information[k \div 2][2], "Normal")]

ExpectedGallery(d, m) ==
    [i \in 1..m |-> Picture(JpgFile(d.name, i), << 547, 287 >>, "CENTER")]

ExpectedContact(d) ==
    << Paragraph("Contact Information", "Heading 2"),
       Paragraph("Address", "Heading 3"), Paragraph(d.address, "Normal"),
       Paragraph("Website", "Heading 3"), Paragraph(d.url, "Normal") >>

ExpectedMap(d) ==
    << Paragraph("Map", "Heading 2"),
       Picture(MapFile(d.name), << 0, 0 >>, "CENTER") >>

\* one block per selected park, in the sampled order, each begun by its title
\* and followed by exactly one blank paragraph
OneBlockPerPark(doc) ==
    /\ Len(doc) >= 1 /\ doc[1] = GuideTitle
    /\ SelectSeq(doc, IsHeading1) =
          [i \in 1..Len(random_park_id_selection) |->
              Paragraph(ParkNames[random_park_id_selection[i]], "Heading 1")]
    /\ Cardinality(Blanks(doc)) = Len(random_park_id_selection)
    /\ \A i \in Headings(doc) : i = 2 \/ (i - 1) \in Blanks(doc)
    /\ \A i \in Blanks(doc) : i = Len(doc) \/ (i + 1) \in Headings(doc)
    /\ Len(random_park_id_selection) > 0 => (2 \in Headings(doc) /\ Len(doc) \in Blanks(doc))

\* C3: in every run that reaches the save step the document holds exactly one
\* block per selected park, in the sampled order, each begun by that park's title
\* heading and followed by exactly one blank paragraph; with 5 parks requested
\* from a catalog of 5 or more entries that is 5 blocks.
C3_SavedDocument ==
    /\ (pc = "for_park" /\ LoopFinished) => OneBlockPerPark(document)
    /\ pc = "done" =>
          /\ saved # << >>
          /\ OneBlockPerPark(saved[1])
          /\ (number_of_parks = NumberOfParks /\ Len(response.val) >= NumberOfParks)
                => Cardinality(Headings(saved[1])) = NumberOfParks

C3_Witness ==
    /\ pc = "done"
    /\ random_park_id_selection = << 6, 2, 5, 1, 3 >>
    /\ Len(response.val) = 6

ParkComplete(park_name, doc, d) ==
    /\ \E i \in 1..Len(doc) : doc[i] = Paragraph(park_name, "Heading 1")
    /\ \E i \in 1..Len(doc) : doc[i].kind = "picture" /\ doc[i].file = MapFile(park_name)
    /\ \A i \in 0..GallerySize : JpgFile(park_name, i) \in DOMAIN d
    /\ MapFile(park_name) \in DOMAIN d

BlockInOrder ==
    each_park.tag = "value" =>
        LET d == each_park.val
            title == ExpectedTitle(d)
            text == title \o ExpectedText(d)
            gallery == text \o ExpectedGallery(d, GallerySize)
            contact == gallery \o ExpectedContact(d)
            map == contact \o ExpectedMap(d)
        IN /\ pc = "park_text_info" => CurrentBlock = title
           /\ pc = "park_gallery" => CurrentBlock = text
           /\ pc = "contact_information" => CurrentBlock = gallery
           /\ pc = "open_street_park_map" => CurrentBlock = contact
           /\ pc = "add_paragraph" => CurrentBlock = map
           /\ (pc \in { "for_park", "done" } /\ idx > 1) => CurrentBlock = map \o << Blank >>

\* C5: for a park whose header image and gallery images 1 to 6 are on disk the
\* assembler steps append, in this order and with nothing in between: the title
\* heading and header image, the highlights heading with one bullet per
\* highlight, one heading and body per information category, 6 gallery pictures,
\* the contact block (address, then website), the map block.
C5_BlockLayout ==
    /\ BlockInOrder
    /\ (each_park.tag = "value" /\ pc \in { "contact_information",
                                           "open_street_park_map", "add_paragraph" }) =>
          \A i \in 0..GallerySize : JpgFile(each_park.val.name, i) \in DOMAIN disk

C5_Witness ==
    /\ pc = "add_paragraph"
    /\ idx = 2
    /\ each_park.val.name = "Itasca"
    /\ Len(CurrentBlock) = 2 + 3 + 4 + 6 + 5 + 2

\* the gallery images of a park that are on disk
ImagesAvailable(park_name) ==
    Cardinality({ i \in 1..GallerySize : JpgFile(park_name, i) \in DOMAIN disk })

AssemblerFailed == pc = "crashed" /\ error.type = "FileNotFoundError"

PastGallery == pc \in { "contact_information", "open_street_park_map", "add_paragraph" }

\* C6 as stated: with fewer than 6 images on disk the assembler fails with a
\* file-not-found error on the (images_available + 1)-th gallery append, for
\* images_available from 0 to 5; the gallery appends before it succeed and no
\* later section is appended.
C6_FailsAtGallery ==
    (each_park.tag = "value" /\ ImagesAvailable(each_park.val.name) < GallerySize) =>
        LET d == each_park.val
            m == ImagesAvailable(d.name)
        IN /\ ~PastGallery
           /\ AssemblerFailed =>
                 /\ error.file = JpgFile(d.name, m + 1)
                 /\ CurrentBlock = ExpectedTitle(d) \o ExpectedText(d) \o ExpectedGallery(d, m)

\* C6 amended: the same, provided the header image {name}_0.jpg is on disk; when
\* the header image is missing the assembler fails earlier, with file-not-found
\* on the header picture right after the title heading, and appends nothing else.
C6_FailsAtGalleryOrHeader ==
    (each_park.tag = "value" /\ ImagesAvailable(each_park.val.name) < GallerySize) =>
        LET d == each_park.val
            m == ImagesAvailable(d.name)
            header == JpgFile(d.name, 0) \in DOMAIN disk
        IN /\ ~PastGallery
           /\ pc \in { "park_text_info", "park_gallery" } => header
           /\ (AssemblerFailed /\ header) =>
                 /\ error.file = JpgFile(d.name, m + 1)
                 /\ CurrentBlock = ExpectedTitle(d) \o ExpectedText(d) \o ExpectedGallery(d, m)
           /\ (AssemblerFailed /\ ~header) =>
                 /\ error.file = JpgFile(d.name, 0)
                 /\ CurrentBlock = << Paragraph(d.name, "Heading 1") >>

C6_Witness ==
    /\ AssemblerFailed
    /\ error.file = JpgFile(each_park.val.name, 4)
    /\ ImagesAvailable(each_park.val.name) = 3
    /\ Len(CurrentBlock) = 2 + 1 + 1 + 2 + 3

DownloadReturned == pc = "park_title_and_header_img"

\* C7: when all downloads succeed download_images has written exactly the files
\* {name}_0.jpg .. {name}_(n-1).jpg, file i holding exactly the bytes of the
\* response body of u_i whatever the file held before, and every other file is
\* as it was.
C7_DownloadedFiles ==
    DownloadReturned =>
        LET d == each_park.val
            n == Len(d.park_images)
            written == { JpgFile(d.name, i) : i \in 0..(n - 1) }
        IN /\ DOMAIN disk = DOMAIN disk_before \cup written
           /\ \A i \in 0..(n - 1) : disk[JpgFile(d.name, i)] = Body(d.park_images[i + 1])
           /\ \A f \in DOMAIN disk \ written : disk[f] = disk_before[f]

C7_Witness ==
    /\ DownloadReturned
    /\ each_park.val.park_images = << "u1", "u0", "u0" >>
    /\ JpgFile(each_park.val.name, 0) \in DOMAIN disk_before
    /\ disk[JpgFile(each_park.val.name, 0)] = << >>
    /\ disk[MapFile(each_park.val.name)] = StaleBytes

FetchAbsent == response.tag = "None" \/ each_park.tag = "None"

DownloadedImages(d) ==
    \A i \in 1..Len(d.park_images) :
        /\ JpgFile(d.name, i - 1) \in DOMAIN disk
        /\ disk[JpgFile(d.name, i - 1)] = Body(d.park_images[i])

\* C9: the steps run in the order catalog fetch, sampler, then per selected
\* park detail fetch, image download, assembly (title, text, gallery, contact,
\* map, the map file written before it is embedded), then save: no section of a
\* park is appended before all of its images are downloaded, and no step of the
\* next park starts before the separator of the park before it is appended.
C9_FixedOrder ==
    /\ [][random_park_id_selection' # random_park_id_selection =>
             response.tag = "value" /\ each_park.tag = "unset"]_vars
    /\ [][each_park' # each_park =>
             /\ total_parks = 0
             /\ Len(random_park_id_selection) = number_of_parks
             /\ Cardinality(Headings(document)) = idx - 1
             /\ Cardinality(Blanks(document)) = idx - 1
             /\ idx > 1 => document[Len(document)] = Blank]_vars
    /\ [][(document' # document /\ pc # "main") =>
             each_park.tag = "value" /\ DownloadedImages(each_park.val)]_vars
    /\ [][disk' # disk =>
             /\ each_park.tag = "value"
             /\ Cardinality(Blanks(document)) = idx - 1
             /\ \/ Cardinality(Headings(document)) = idx - 1
                \/ /\ DOMAIN disk' = DOMAIN disk \cup { MapFile(each_park.val.name) }
                   /\ CurrentBlock = ExpectedTitle(each_park.val) \o ExpectedText(each_park.val)
                         \o ExpectedGallery(each_park.val, GallerySize)
                         \o ExpectedContact(each_park.val)]_vars
    /\ [](\A i \in 1..Len(document) :
             document[i].kind = "picture" =>
                /\ document[i].file \in DOMAIN disk
                /\ (each_park.tag = "value" /\ document[i].file = MapFile(each_park.val.name))
                      => disk[document[i].file] = MapImage(each_park.val.location))
    /\ []BlockInOrder
    /\ [][saved' # saved =>
             /\ idx = number_of_parks + 1
             /\ Cardinality(Blanks(document)) = number_of_parks]_vars

C9_Witness ==
    /\ pc = "add_paragraph"
    /\ idx = NumberOfParks
    /\ random_park_id_selection = << 5, 4, 3, 2, 1 >>
    /\ DownloadedImages(each_park.val)

====
